---- MODULE Spec2Model ----
(***************************************************************************)
(* The cluster-centric analysis pipeline of the CBIE system                *)
(* (src/src/services/cluster_analysis_pipeline.py) with the clustering     *)
(* engine, the document store (MongoDB) and the vector store (Qdrant) it   *)
(* talks to.                                                               *)
(*                                                                         *)
(* A run is one call of analyze_behaviors_from_storage or of               *)
(* analyze_observations.  A run takes one step per collaborator call or    *)
(* pipeline step; the steps of different runs interleave.                  *)
(*                                                                         *)
(*   Spec      the two entry points up to and including step 4             *)
(*             (_build_behavior_clusters), as the code runs them.          *)
(*   SpecTail  steps 5 to 10 of analyze_observations (tiering, storing,    *)
(*             archetype, Profile, replace-profile write) checked on       *)
(*             their own, entered with every cluster list of the shape     *)
(*             step 4 constructs.  Under Spec step 4 always raises, so     *)
(*             these steps are not reached from the entry points.          *)
(*   SpecLabel the label and name functions (select_canonical_label,       *)
(*             generate_concise_label, generate_cluster_name), called      *)
(*             with every member-text set and text-service outcome.        *)
(*   SpecScore the scoring functions of CalculationEngine, called on       *)
(*             their own and by the loop body of step 4 for one cluster,   *)
(*             with a later analysis of the same cluster.                  *)
(*   SpecCalls functions called on their own: cluster_behaviors of the     *)
(*             clustering engine, calculate_behavior_metrics, and          *)
(*             generate_llm_context on a stored Profile.                   *)
(*                                                                         *)
(* Scores are integers in units of 1/10000 (the engine rounds to 4 places).*)
(***************************************************************************)
EXTENDS Integers, Sequences, FiniteSets, TLC

\* ------------------------------------------------------------------ bounds
NumRuns == 2
MaxObs == 3
MaxPrompts == 2
MaxTexts == 11

\* --------------------------------------------------- program constants
min_cluster_size == 2
PrimaryStrength == 8000
SecondaryStrength == 4000
unique_texts_cap == 10
Scale == 10000
SecondsPerDay == 86400

Runs == 1..NumRuns
Users == {"u1", "u2"}
ObsIds == 1..MaxObs
PromptIds == 1..MaxPrompts

VARIABLES
  run,          \* run[r]: the local state of run r
  qdrant,       \* qdrant[u]: ids of the observations stored for user u
  prompts_db,   \* the prompts collection: documents [prompt_id, user_id]
  profiles_db,  \* the core_behavior_profiles collection: Profile documents
  clusters_db,  \* the clusters collection: cluster documents
  last_write,   \* last_write[u]: who wrote u's Profile last, and what
  call          \* a call of a scoring or label function: arguments, result

vars == <<run, qdrant, prompts_db, profiles_db, clusters_db, last_write,
         call>>

\* ------------------------------------------------------------ run records
NoClustering == [none |-> TRUE]
NoResult == [kind |-> "none"]
NoWrite == [by |-> 0]
NoCall == [fn |-> "none"]

IdleRun ==
  [pc |-> "idle", entry |-> "none", user_id |-> "none",
   observations |-> {}, prompts |-> {},
   store_in_dbs |-> FALSE, skip_observation_storage |-> FALSE,
   clustering_result |-> NoClustering, behavior_clusters |-> <<>>,
   archetype |-> "None", result |-> NoResult,
   failed |-> {}, embed_calls |-> 0, llm_calls |-> 0, wrote |-> {},
   with_embedding |-> {}, embedding_asked |-> {}]

\* A run that ends by raising: the exception is its only result.
Raise(rec, exc) == [rec EXCEPT !.pc = "done", !.result = [kind |-> exc]]

\* ------------------------------------------------------------ vector store
\* QdrantService.get_embeddings_by_user: the user's points, or [] when the
\* scroll raises (the exception is logged and swallowed).
get_embeddings_by_user(user_id, ok) ==
  IF ok THEN qdrant[user_id] ELSE {}

\* ---------------------------------------------------------- document store
\* MongoDBService.get_prompts_by_user: the user's prompts, or [] when the
\* query raises (PyMongoError is logged and swallowed).
get_prompts_by_user(user_id, ok) ==
  IF ok THEN {d.prompt_id : d \in {x \in prompts_db : x.user_id = user_id}}
  ELSE {}

\* -------------------------------------------------------- clustering engine
\* HDBSCAN(min_cluster_size, ...).fit_predict: one label per point, -1 for
\* noise, the clusters numbered 0, 1, ... and each of them holding at least
\* min_cluster_size points.  Which points fall together depends on the
\* embeddings; every labelling of that form is possible.
fit_predict(ids) ==
  LET top == (Cardinality(ids) \div min_cluster_size) - 1
      members(lab, l) == {i \in ids : lab[i] = l}
  IN {lab \in [ids -> -1..top] :
        \A l \in 0..top :
          /\ members(lab, l) = {} \/ Cardinality(members(lab, l)) >= min_cluster_size
          /\ (members(lab, l) # {} /\ l > 0) => members(lab, l - 1) # {}}

\* cluster_behaviors with every noise id wrapped into a cluster of its own.
cluster_behaviors_wrapping_noise(ids, lab) ==
  IF Cardinality(ids) < min_cluster_size
  THEN [clusters |-> [i \in ids |-> {i}],
        labels |-> [i \in ids |-> -1],
        noise_behaviors |-> ids,
        num_clusters |-> Cardinality(ids)]
  ELSE LET used == {lab[i] : i \in ids} \ {-1}
           noise == {i \in ids : lab[i] = -1}
       IN [clusters |-> [c \in used \cup {100 + i : i \in noise} |->
                           IF c \in used THEN {i \in ids : lab[i] = c}
                           ELSE {c - 100}],
           labels |-> lab,
           noise_behaviors |-> noise,
           num_clusters |-> Cardinality(used) + Cardinality(noise),
           clusterer |-> "HDBSCAN"]

\* cluster_behaviors that leaves the noise ids out of its result.
cluster_behaviors_losing_noise(ids, lab) ==
  IF Cardinality(ids) < min_cluster_size
  THEN [clusters |-> << >>,
        labels |-> [i \in ids |-> -1],
        noise_behaviors |-> ids,
        num_clusters |-> 0]
  ELSE LET used == {lab[i] : i \in ids} \ {-1}
       IN [clusters |-> [c \in used |-> {i \in ids : lab[i] = c}],
           labels |-> lab,
           noise_behaviors |-> {},
           num_clusters |-> Cardinality(used),
           clusterer |-> "HDBSCAN"]

\* cluster_behaviors without the check for too few points.
cluster_behaviors_always_clustering(ids, lab) ==
  LET used == {lab[i] : i \in ids} \ {-1}
  IN [clusters |-> [c \in used |-> {i \in ids : lab[i] = c}],
      labels |-> lab,
      noise_behaviors |-> {i \in ids : lab[i] = -1},
      num_clusters |-> Cardinality(used),
      clusterer |-> "HDBSCAN"]

\* ClusteringEngine.cluster_behaviors: the result dictionary.  clusters maps
\* a cluster id (here its label l, for "cluster_l") to the ids labelled l.
cluster_behaviors(ids, lab) ==
  IF Cardinality(ids) < min_cluster_size
  THEN [clusters |-> << >>,
        labels |-> [i \in ids |-> -1],
        noise_behaviors |-> ids,
        num_clusters |-> 0]
  ELSE LET used == {lab[i] : i \in ids} \ {-1}
       IN [clusters |-> [c \in used |-> {i \in ids : lab[i] = c}],
           labels |-> lab,
           noise_behaviors |-> {i \in ids : lab[i] = -1},
           num_clusters |-> Cardinality(used),
           clusterer |-> "HDBSCAN"]

\* ------------------------------------------------------------ the pipeline
\* The flags analyze_behaviors_from_storage passes to analyze_observations.
FromStorageFlags ==
  [store_in_dbs |-> TRUE, skip_observation_storage |-> TRUE]

\* A caller starts analyze_behaviors_from_storage(user_id).
StartFromStorage(r, u) ==
  /\ run[r].pc = "idle"
  /\ run' = [run EXCEPT ![r] =
       [IdleRun EXCEPT !.pc = "fetch_behaviors", !.entry = "storage",
                       !.user_id = u]]
  /\ UNCHANGED <<qdrant, prompts_db, profiles_db, clusters_db, last_write, call>>

\* A caller starts analyze_observations(user_id, observations, prompts, ...).
StartObservations(r, u, n, p, store, skip) ==
  /\ run[r].pc = "idle"
  /\ run' = [run EXCEPT ![r] =
       [IdleRun EXCEPT !.pc = "step2", !.entry = "observations",
                       !.user_id = u,
                       !.observations = 1..n, !.prompts = 1..p,
                       !.store_in_dbs = store,
                       !.skip_observation_storage = skip]]
  /\ UNCHANGED <<qdrant, prompts_db, profiles_db, clusters_db, last_write, call>>

\* FetchBehaviors without the check for an empty answer.
FetchBehaviorsUnchecked(r, ok) ==
  /\ run[r].pc = "fetch_behaviors"
  /\ run' = [run EXCEPT ![r] =
       [@ EXCEPT !.pc = "fetch_prompts",
                 !.failed = IF ok THEN @ ELSE @ \cup {"qdrant_read"},
                 !.observations = get_embeddings_by_user(run[r].user_id, ok),
                 !.with_embedding = get_embeddings_by_user(run[r].user_id, ok)]]
  /\ UNCHANGED <<qdrant, prompts_db, profiles_db, clusters_db, last_write, call>>

\* analyze_behaviors_from_storage, the fetch of the user's observations,
\* each built with the stored vector as its embedding: an empty answer
\* raises ValueError, which the route turns into 404.
FetchBehaviors(r, ok) ==
  /\ run[r].pc = "fetch_behaviors"
  /\ LET rec == [run[r] EXCEPT
                   !.failed = IF ok THEN @ ELSE @ \cup {"qdrant_read"}]
         qdrant_behaviors == get_embeddings_by_user(rec.user_id, ok)
     IN run' = [run EXCEPT ![r] =
          IF qdrant_behaviors = {}
          THEN Raise(rec, "ValueError")
          ELSE [rec EXCEPT !.pc = "fetch_prompts",
                           !.observations = qdrant_behaviors,
                           !.with_embedding = qdrant_behaviors]]
  /\ UNCHANGED <<qdrant, prompts_db, profiles_db, clusters_db, last_write, call>>

\* analyze_behaviors_from_storage, the fetch of the user's prompts and the
\* call of analyze_observations.
FetchPrompts(r, ok) ==
  /\ run[r].pc = "fetch_prompts"
  /\ run' = [run EXCEPT ![r] =
       [@ EXCEPT !.pc = "step2",
                 !.failed = IF ok THEN @ ELSE @ \cup {"mongo_read"},
                 !.prompts = get_prompts_by_user(run[r].user_id, ok),
                 !.store_in_dbs = FromStorageFlags.store_in_dbs,
                 !.skip_observation_storage =
                     FromStorageFlags.skip_observation_storage]]
  /\ UNCHANGED <<qdrant, prompts_db, profiles_db, clusters_db, last_write, call>>

\* Steps 1 and 2: the metrics of each observation, then one embedding call
\* for the texts of all observations (none when there are no texts), whether
\* or not an observation came with an embedding; the answers replace the
\* embeddings of all observations.  A failed call raises.
GenerateEmbeddings(r, ok) ==
  /\ run[r].pc = "step2"
  /\ run' = [run EXCEPT ![r] =
       IF run[r].observations = {}
       THEN [@ EXCEPT !.pc = "step3"]
       ELSE IF ok
       THEN [@ EXCEPT !.pc = "step3", !.embed_calls = @ + 1,
                      !.embedding_asked = run[r].observations]
       ELSE Raise([@ EXCEPT !.embed_calls = @ + 1,
                            !.embedding_asked = run[r].observations,
                            !.failed = @ \cup {"embedding"}],
                  "EmbeddingError")]
  /\ UNCHANGED <<qdrant, prompts_db, profiles_db, clusters_db, last_write, call>>

\* Step 3: cluster the embeddings.
PerformClustering(r, lab) ==
  /\ run[r].pc = "step3"
  /\ lab \in fit_predict(run[r].observations)
  /\ run' = [run EXCEPT ![r] =
       [@ EXCEPT !.pc = "step4",
                 !.clustering_result =
                     cluster_behaviors(run[r].observations, lab)]]
  /\ UNCHANGED <<qdrant, prompts_db, profiles_db, clusters_db, last_write, call>>

\* BehaviorCluster as _build_behavior_clusters constructs it.  The schema
\* declares canonical_observation_id: str, the pipeline passes None, so the
\* construction of a cluster raises a validation error.
canonical_observation_id_passed == "None"
BehaviorClusterValid == canonical_observation_id_passed # "None"

\* Step 4: _build_behavior_clusters.  It first reads three keys of the
\* clustering result; a missing key raises KeyError.
BuildBehaviorClustersKeys ==
  {"clusters", "cluster_centroids", "intra_cluster_distances",
   "cluster_embeddings"}

BuildBehaviorClusters(r) ==
  /\ run[r].pc = "step4"
  /\ LET cr == run[r].clustering_result
     IN run' = [run EXCEPT ![r] =
          IF ~(BuildBehaviorClustersKeys \subseteq DOMAIN cr)
          THEN Raise(@, "KeyError")
          ELSE IF DOMAIN cr.clusters # {} /\ ~BehaviorClusterValid
          THEN Raise(@, "ValidationError")
          ELSE [@ EXCEPT !.pc = "step5"]]
  /\ UNCHANGED <<qdrant, prompts_db, profiles_db, clusters_db, last_write, call>>

\* ---------------------------------------------------------- specification
\* The stores as some earlier ingestion left them: each user has none, two
\* or all of the observations, and none or all of the prompts.
StoredObservationSets == {{}, 1..min_cluster_size, ObsIds}

Init ==
  /\ run = [r \in Runs |-> IdleRun]
  /\ qdrant \in [Users -> StoredObservationSets]
  /\ \E withPrompts \in SUBSET Users :
       prompts_db = {[prompt_id |-> p, user_id |-> u] :
                       p \in PromptIds, u \in withPrompts}
  /\ profiles_db = {}
  /\ clusters_db = {}
  /\ last_write = [u \in Users |-> NoWrite]
  /\ call = NoCall

\* Steps 1 to 4 read the stores and never write them, so the runs of Spec do
\* not affect one another: Spec follows one run.
FrontRuns == {1}

Next ==
  \E r \in FrontRuns :
    \/ \E u \in Users : StartFromStorage(r, u)
    \/ \E u \in Users, n \in 0..MaxObs, p \in 0..MaxPrompts,
          store \in BOOLEAN, skip \in BOOLEAN :
         StartObservations(r, u, n, p, store, skip)
    \/ \E ok \in BOOLEAN : FetchBehaviors(r, ok)
    \/ \E ok \in BOOLEAN : FetchPrompts(r, ok)
    \/ \E ok \in BOOLEAN : GenerateEmbeddings(r, ok)
    \/ \E lab \in fit_predict(run[r].observations) : PerformClustering(r, lab)
    \/ BuildBehaviorClusters(r)

Spec == Init /\ [][Next]_vars

\* ------------------------------------------------- steps 5 to 10 (SpecTail)
\* The strengths a cluster is handed over with: each threshold and the value
\* just below it.
Strengths == {SecondaryStrength - 1, SecondaryStrength,
              PrimaryStrength - 1, PrimaryStrength}

\* The BehaviorCluster record step 4 constructs: tier NOISE until step 5.
BehaviorCluster(cluster_id, user_id, observation_ids, cluster_strength) ==
  [cluster_id |-> cluster_id, user_id |-> user_id,
   observation_ids |-> observation_ids,
   cluster_size |-> Cardinality(observation_ids),
   cluster_strength |-> cluster_strength,
   tier |-> "NOISE"]

\* _assign_tier_by_strength with strict comparisons.
assign_tier_by_strength_strict(cluster_strength) ==
  IF cluster_strength > PrimaryStrength THEN "PRIMARY"
  ELSE IF cluster_strength > SecondaryStrength THEN "SECONDARY"
  ELSE "NOISE"

\* _assign_tier_by_strength.
assign_tier_by_strength(cluster_strength) ==
  IF cluster_strength >= PrimaryStrength THEN "PRIMARY"
  ELSE IF cluster_strength >= SecondaryStrength THEN "SECONDARY"
  ELSE "NOISE"

\* Step 5: every cluster gets the tier of its strength.
AssignTiers(r) ==
  /\ run[r].pc = "step5"
  /\ LET clusters == run[r].behavior_clusters
     IN run' = [run EXCEPT ![r] =
          [@ EXCEPT !.pc = "step6",
                    !.behavior_clusters =
                       [i \in DOMAIN clusters |->
                          [clusters[i] EXCEPT !.tier =
                             assign_tier_by_strength(
                               clusters[i].cluster_strength)]]]]
  /\ UNCHANGED <<qdrant, prompts_db, profiles_db, clusters_db, last_write, call>>

\* Collection.insert_many(docs), ordered, under the unique index on
\* prompt_id: the documents go in by ascending position until the first
\* duplicate key.  Here the position of a prompt is its id.
insert_many(coll, ids, user_id) ==
  LET dup(p) == \E d \in coll : d.prompt_id = p
      before_dup == {p \in ids : \A q \in ids : q <= p => ~dup(q)}
  IN coll \cup {[prompt_id |-> p, user_id |-> user_id] : p \in before_dup}

\* MongoDBService.insert_prompts_bulk: the collection after the call.  A
\* PyMongoError (the server unreachable, a duplicate key) is logged and
\* swallowed; the caller sees no exception.
insert_prompts_bulk(ids, user_id, ok) ==
  IF ok THEN insert_many(prompts_db, ids, user_id) ELSE prompts_db

\* Step 6: with store_in_dbs and not skip_observation_storage the prompts are
\* written (insert_many raises TypeError for an empty list, which is not a
\* PyMongoError), then each observation is handed to
\* QdrantService.insert_behavior, a method the service does not have
\* (AttributeError), then each cluster is written.
StoreObservations(r, ok) ==
  /\ run[r].pc = "step6"
  /\ LET rec == run[r]
         calls == rec.store_in_dbs /\ ~rec.skip_observation_storage
     IN IF ~calls
        THEN /\ ok
             /\ run' = [run EXCEPT ![r] = [rec EXCEPT !.pc = "step7"]]
             /\ UNCHANGED <<prompts_db, clusters_db>>
        ELSE IF rec.prompts = {}
        THEN /\ ok
             /\ run' = [run EXCEPT ![r] = Raise(rec, "TypeError")]
             /\ UNCHANGED <<prompts_db, clusters_db>>
        ELSE LET rec2 == [rec EXCEPT
                   !.failed = IF ok THEN @ ELSE @ \cup {"mongo_write_prompts"},
                   !.wrote = IF ok THEN @ \cup {"prompts"} ELSE @]
             IN /\ prompts_db' = insert_prompts_bulk(rec.prompts, rec.user_id, ok)
                /\ IF rec.observations # {}
                   THEN /\ run' = [run EXCEPT ![r] = Raise(rec2, "AttributeError")]
                        /\ UNCHANGED clusters_db
                   ELSE /\ run' = [run EXCEPT ![r] = [rec2 EXCEPT !.pc = "step7"]]
                        /\ clusters_db' = clusters_db \cup
                             {rec.behavior_clusters[i] :
                                i \in DOMAIN rec.behavior_clusters}
  /\ UNCHANGED <<qdrant, profiles_db, last_write, call>>

\* generate_archetype whose failure reaches the caller as an error text.
generate_archetype_propagating(canonical_behaviors, ok) ==
  IF canonical_behaviors = {} THEN "Unknown"
  ELSE IF ok THEN "Archetype" ELSE "LLMError"

\* ArchetypeService.generate_archetype: the whole body is inside try/except;
\* an exception of the client (none connected, an error of the service, a
\* response without content) gives "Unknown", as does an empty list.
generate_archetype(canonical_behaviors, ok) ==
  IF canonical_behaviors = {} THEN "Unknown"
  ELSE IF ok THEN "Archetype" ELSE "Unknown"

\* Step 7: the archetype, asked of the text-generation service when there is
\* a cluster of tier other than NOISE.  generate_archetype answers "Unknown"
\* when the service fails.
GenerateArchetype(r, ok) ==
  /\ run[r].pc = "step7"
  /\ LET rec == run[r]
         canonical_labels ==
           {i \in DOMAIN rec.behavior_clusters :
              rec.behavior_clusters[i].tier # "NOISE"}
     IN IF canonical_labels = {}
        THEN /\ ok
             /\ run' = [run EXCEPT ![r] =
                  [rec EXCEPT !.pc = "step8", !.archetype = "None"]]
        ELSE run' = [run EXCEPT ![r] =
               [rec EXCEPT !.pc = "step8",
                           !.llm_calls = @ + 1,
                           !.failed = IF ok THEN @ ELSE @ \cup {"llm"},
                           !.archetype =
                              generate_archetype(canonical_labels, ok)]]
  /\ UNCHANGED <<qdrant, prompts_db, profiles_db, clusters_db, last_write, call>>

\* The filter of the replace: {"user_id": profile.user_id}.
profile_filter_any(doc, user_id) == TRUE

profile_filter(doc, user_id) == doc.user_id = user_id

\* replace_one that folds the clusters of the document it finds into the new
\* one and keeps the old archetype where the new one has none.
replace_one_merging(coll, user_id, doc) ==
  LET matching == {d \in coll : profile_filter(d, user_id)}
  IN IF matching = {}
     THEN coll \cup {doc}
     ELSE LET old == CHOOSE d \in matching : TRUE
          IN (coll \ {old}) \cup
               {[doc EXCEPT
                   !.behavior_clusters = old.behavior_clusters \o @,
                   !.archetype = IF @ = "None" THEN old.archetype ELSE @]}

\* Collection.replace_one(filter, doc, upsert=True): the first document the
\* filter matches is replaced by doc as a whole; with no match doc is
\* inserted.
replace_one(coll, user_id, doc) ==
  LET matching == {d \in coll : profile_filter(d, user_id)}
  IN IF matching = {}
     THEN coll \cup {doc}
     ELSE (coll \ {CHOOSE d \in matching : TRUE}) \cup {doc}

\* insert_profile as a plain insert of the new document.
insert_profile_without_replace(profile, ok) ==
  IF ok THEN profiles_db \cup {profile} ELSE profiles_db

\* MongoDBService.insert_profile: the collection after the call.  A
\* PyMongoError is logged and swallowed (the method returns False).
insert_profile(profile, ok) ==
  IF ok THEN replace_one(profiles_db, profile.user_id, profile)
  ELSE profiles_db

\* PromptModel.timestamp of prompt p, in seconds: the prompts of a list are
\* half a day apart, the later in the list the earlier in time.
prompt_timestamp(p) == (MaxPrompts + 1 - p) * (SecondsPerDay \div 2)

\* _calculate_time_span taking the last prompt's timestamp minus the first's.
calculate_time_span_last_minus_first(prompts) ==
  IF prompts = {} THEN 0
  ELSE LET first == CHOOSE p \in prompts : \A q \in prompts : p <= q
           last == CHOOSE p \in prompts : \A q \in prompts : q <= p
       IN ((prompt_timestamp(last) - prompt_timestamp(first)) * Scale)
            \div SecondsPerDay

\* _calculate_time_span: the days between the earliest and the latest
\* prompt, 0 without prompts.
calculate_time_span(prompts) ==
  IF prompts = {} THEN 0
  ELSE LET timestamps == {prompt_timestamp(p) : p \in prompts}
           min_time == CHOOSE t \in timestamps : \A o \in timestamps : t <= o
           max_time == CHOOSE t \in timestamps : \A o \in timestamps : o <= t
       IN ((max_time - min_time) * Scale) \div SecondsPerDay

\* Steps 8 and 9: the statistics and the Profile of the run.
CoreBehaviorProfile(rec) ==
  [user_id |-> rec.user_id,
   behavior_clusters |-> rec.behavior_clusters,
   archetype |-> rec.archetype,
   statistics |->
     [total_behaviors_analyzed |-> Cardinality(rec.observations),
      clusters_formed |-> Len(rec.behavior_clusters),
      total_prompts_analyzed |-> Cardinality(rec.prompts),
      analysis_time_span_days |-> calculate_time_span(rec.prompts)]]

\* Steps 8 to 10 with the Profile written whatever store_in_dbs says.
StoreProfileAlways(r, ok) ==
  /\ run[r].pc = "step8"
  /\ LET rec == run[r]
         profile == CoreBehaviorProfile(rec)
     IN /\ profiles_db' = insert_profile(profile, ok)
        /\ last_write' = IF ok
                         THEN [last_write EXCEPT ![rec.user_id] =
                                 [by |-> r, profile |-> profile]]
                         ELSE last_write
        /\ run' = [run EXCEPT ![r] =
             [rec EXCEPT
                !.pc = "done",
                !.result = [kind |-> "profile", profile |-> profile],
                !.failed = IF ~ok THEN @ \cup {"mongo_write_profile"} ELSE @,
                !.wrote = IF ok THEN @ \cup {"profile"} ELSE @]]
  /\ UNCHANGED <<qdrant, prompts_db, clusters_db, call>>

\* Steps 8 to 10 and the return: with store_in_dbs the Profile is written,
\* and it is returned whatever insert_profile answered.
StoreProfile(r, ok) ==
  /\ run[r].pc = "step8"
  /\ LET rec == run[r]
         profile == CoreBehaviorProfile(rec)
         written == rec.store_in_dbs /\ ok
     IN /\ rec.store_in_dbs \/ ok
        /\ profiles_db' = IF rec.store_in_dbs
                          THEN insert_profile(profile, ok)
                          ELSE profiles_db
        /\ last_write' = IF written
                         THEN [last_write EXCEPT ![rec.user_id] =
                                 [by |-> r, profile |-> profile]]
                         ELSE last_write
        /\ run' = [run EXCEPT ![r] =
             [rec EXCEPT
                !.pc = "done",
                !.result = [kind |-> "profile", profile |-> profile],
                !.failed = IF rec.store_in_dbs /\ ~ok
                           THEN @ \cup {"mongo_write_profile"} ELSE @,
                !.wrote = IF written THEN @ \cup {"profile"} ELSE @]]
  /\ UNCHANGED <<qdrant, prompts_db, clusters_db, call>>

\* The cluster lists step 4 can hand to step 5 for a set of observations:
\* none, or (from min_cluster_size observations on) one cluster of them all.
ClusterLists(user_id, observations) ==
  {<< >>} \cup
  IF Cardinality(observations) >= min_cluster_size
  THEN {<<BehaviorCluster(0, user_id, observations, s)>> : s \in Strengths}
  ELSE {}

\* A run at step 5 of analyze_observations.
AtStep5(entry, user_id, observations, prompts, store, skip, clusters) ==
  [IdleRun EXCEPT !.pc = "step5", !.entry = entry, !.user_id = user_id,
                  !.observations = observations, !.prompts = prompts,
                  !.store_in_dbs = store,
                  !.skip_observation_storage = skip,
                  !.with_embedding =
                      IF entry = "storage" THEN observations ELSE {},
                  !.embed_calls = IF observations = {} THEN 0 ELSE 1,
                  !.embedding_asked = observations,
                  !.behavior_clusters = clusters]

\* The runs SpecTail starts from: runs of analyze_behaviors_from_storage for
\* the users with stored observations, with what the stores hold and the
\* flags that entry point passes, and runs of analyze_observations with no
\* or min_cluster_size observations and no or MaxPrompts prompts.
TailRunsOf(u) ==
  (IF qdrant[u] = {} THEN {}
   ELSE {AtStep5("storage", u, qdrant[u], get_prompts_by_user(u, TRUE),
                 FromStorageFlags.store_in_dbs,
                 FromStorageFlags.skip_observation_storage, cl) :
           cl \in ClusterLists(u, qdrant[u])})
  \cup
  UNION {{AtStep5("observations", u, 1..n, 1..p, store, skip, cl) :
            p \in {0, MaxPrompts},
            store \in BOOLEAN, skip \in BOOLEAN,
            cl \in ClusterLists(u, 1..n)} :
         n \in {0, min_cluster_size}}

TailRuns == UNION {TailRunsOf(u) : u \in Users}

InitTail ==
  /\ qdrant = [u \in Users |->
                 IF u = "u1" THEN 1..min_cluster_size ELSE {}]
  /\ prompts_db = {[prompt_id |-> MaxPrompts, user_id |-> "u1"]}
  /\ profiles_db = {}
  /\ clusters_db = {}
  /\ last_write = [u \in Users |-> NoWrite]
  /\ call = NoCall
  /\ run \in [Runs -> TailRuns]

NextTail ==
  \E r \in Runs :
    \/ AssignTiers(r)
    \/ \E ok \in BOOLEAN : StoreObservations(r, ok)
    \/ \E ok \in BOOLEAN : GenerateArchetype(r, ok)
    \/ \E ok \in BOOLEAN : StoreProfile(r, ok)

SpecTail == InitTail /\ [][NextTail]_vars

\* ------------------------------------------- label selector (SpecLabel)
\* The texts of a cluster's members are 1..MaxTexts; TextLen(t) is len(t),
\* two texts to each length.
Texts == 1..MaxTexts
TextLen(t) == (t + 1) \div 2

\* What a chat.completions.create call for a label or a name can come to:
\* a text of at most 8 words, an empty text, a text of more than 8 words, an
\* exception of the service, no client (self.client is None), a response
\* whose content is None.
LLMOutcomes == {"text", "empty", "long", "error", "unavailable", "no_content"}
LLMRaises == {"error", "unavailable", "no_content"}

\* max(texts, key=len): a text of the greatest length; which one of several
\* depends on the order of the list.
Longest(texts) ==
  {t \in texts : \A o \in texts : TextLen(o) <= TextLen(t)}

\* list(set(behavior_texts))[:10]: the texts without repetition, in the
\* order of the set (which depends on the hashes of this process), cut to
\* the first ten.
UniqueTexts(texts) ==
  IF Cardinality(texts) <= unique_texts_cap THEN {texts}
  ELSE {u \in SUBSET texts : Cardinality(u) = unique_texts_cap}

\* ArchetypeService.generate_concise_label: the labels it can return.  The
\* result of the service is used when it is neither empty nor longer than 8
\* words; otherwise, and on any exception, the longest of unique_texts.
generate_concise_label(texts, size, llm) ==
  IF size = 0 THEN {[kind |-> "literal", text |-> "Unknown Behavior"]}
  ELSE IF size = 1 THEN {[kind |-> "member", text |-> t] : t \in texts}
  ELSE IF llm = "text" THEN {[kind |-> "llm"]}
  ELSE {[kind |-> "member", text |-> t] :
          t \in UNION {Longest(u) : u \in UniqueTexts(texts)}}

\* select_canonical_label that asks the service for every cluster.
select_canonical_label_asking_always(texts, size, use_llm, llm) ==
  IF size = 0 THEN {[kind |-> "ValueError", llm_calls |-> 0]}
  ELSE {[kind |-> IF llm = "text" THEN "llm" ELSE "member",
         text |-> t, llm_calls |-> 1] : t \in Longest(texts)}

\* CalculationEngine.select_canonical_label: the results it can have, each
\* with the number of calls made to the text-generation service.
select_canonical_label(texts, size, use_llm, llm) ==
  IF size = 0 THEN {[kind |-> "ValueError", llm_calls |-> 0]}
  ELSE IF size = 1
  THEN {[kind |-> "member", text |-> t, llm_calls |-> 0] : t \in texts}
  ELSE IF use_llm
  THEN {[kind |-> l.kind,
         text |-> IF l.kind = "member" THEN l.text ELSE 0,
         llm_calls |-> IF llm = "unavailable" THEN 0 ELSE 1] :
          l \in generate_concise_label(texts, size, llm)}
  ELSE {[kind |-> "member", text |-> t, llm_calls |-> 0] :
          t \in Longest(texts)}

\* str.title() of a member text: the same words, each capitalised.
Title(t) == [kind |-> "titled", text |-> t]

\* ArchetypeService.generate_cluster_name: the name for the wordings of a
\* cluster, first being wording_variations[0].  Only a result of more than 8
\* words is replaced; an empty result is returned as it is.
generate_cluster_name(wording_variations, first, llm) ==
  IF wording_variations = {}
  THEN [kind |-> "literal", text |-> "Unnamed Cluster"]
  ELSE IF llm \in LLMRaises THEN Title(first)
  ELSE IF llm = "long" THEN Title(first)
  ELSE IF llm = "empty" THEN [kind |-> "empty"]
  ELSE [kind |-> "llm"]

\* The calls SpecLabel starts from.  A cluster's member texts are 1..k; size
\* is the number of members, greater than the number of texts when two
\* members have the same text.
LabelCalls ==
  {[fn |-> "select_canonical_label", pc |-> "called", texts |-> 1..k,
    size |-> k + d, use_llm |-> use, llm |-> llm] :
     k \in 0..MaxTexts, d \in {0, 1}, use \in BOOLEAN, llm \in LLMOutcomes}
NameCalls ==
  UNION {{[fn |-> "generate_cluster_name", pc |-> "called", texts |-> 1..k,
           first |-> f, llm |-> llm] : f \in 1..k, llm \in LLMOutcomes} :
         k \in 0..MaxTexts}
  \cup {[fn |-> "generate_cluster_name", pc |-> "called", texts |-> {},
         first |-> 0, llm |-> llm] : llm \in LLMOutcomes}

SelectCanonicalLabel ==
  /\ call.fn = "select_canonical_label" /\ call.pc = "called"
  /\ call.texts # {} \/ call.size = 0
  /\ \E res \in select_canonical_label(call.texts, call.size,
                                       call.use_llm, call.llm) :
       call' = [fn |-> call.fn, pc |-> "returned", texts |-> call.texts,
                size |-> call.size, use_llm |-> call.use_llm,
                llm |-> call.llm, result |-> res]
  /\ UNCHANGED <<run, qdrant, prompts_db, profiles_db, clusters_db, last_write>>

GenerateClusterName ==
  /\ call.fn = "generate_cluster_name" /\ call.pc = "called"
  /\ call' = [fn |-> call.fn, pc |-> "returned", texts |-> call.texts,
              first |-> call.first, llm |-> call.llm,
              result |-> generate_cluster_name(call.texts, call.first,
                                               call.llm)]
  /\ UNCHANGED <<run, qdrant, prompts_db, profiles_db, clusters_db, last_write>>

InitLabel ==
  /\ run = [r \in Runs |-> IdleRun]
  /\ qdrant = [u \in Users |-> {}]
  /\ prompts_db = {}
  /\ profiles_db = {}
  /\ clusters_db = {}
  /\ last_write = [u \in Users |-> NoWrite]
  /\ call \in {c \in LabelCalls : c.texts # {} \/ c.size = 0} \cup NameCalls

NextLabel == SelectCanonicalLabel \/ GenerateClusterName

SpecLabel == InitLabel /\ [][NextLabel]_vars

\* =============================================================== SpecScore
\* The scoring functions of CalculationEngine and the body of the loop of
\* _build_behavior_clusters that applies them to one cluster, followed by
\* the tier step.  Scores are fixed-point numbers in units of 1/Scale;
\* timestamps are whole days (the code divides seconds by 86400).

MaxMembers == 3
MaxAnalyses == 2
reinforcement_multiplier == 100

Qualities == {0, 9000}
Days == {0, 1, 200, 1000}
DistanceValues == {0, 5000}

RECURSIVE SumSeq(_)
SumSeq(s) == IF s = <<>> THEN 0 ELSE Head(s) + SumSeq(Tail(s))

Min(a, b) == IF a <= b THEN a ELSE b

\* Product of two fixed-point numbers, rounded; a factor above 10.0 is
\* taken to whole units so that the product stays within 32 bits.
MulFix(a, b) ==
  IF b <= 10 * Scale THEN (a * b + Scale \div 2) \div Scale
  ELSE a * (b \div Scale)

\* math.pow(q, alpha), math.pow(q, beta), math.pow(q, gamma) with
\* alpha = 0.35, beta = 0.40, gamma = 0.25.
PowAlpha(q) == CASE q = 0 -> 0 [] q = 9000 -> 9638 [] q = 10000 -> 10000
PowBeta(q) == CASE q = 0 -> 0 [] q = 9000 -> 9587 [] q = 10000 -> 10000
PowGamma(q) == CASE q = 0 -> 0 [] q = 9000 -> 9740 [] q = 10000 -> 10000

\* math.log(n + 1) and math.log10(n + 1).
LnPlus1(n) ==
  CASE n = 0 -> 0 [] n = 1 -> 6931 [] n = 2 -> 10986 [] n = 3 -> 13863
    [] n = 4 -> 16094 [] n = 5 -> 17918
Log10Plus1(n) ==
  CASE n = 0 -> 0 [] n = 1 -> 3010 [] n = 2 -> 4771 [] n = 3 -> 6021
    [] n = 4 -> 6990 [] n = 5 -> 7782

\* math.exp(-0.01 * d) for a difference of d days; d is negative for a
\* timestamp later than the reference time.
ExpDecay(d) ==
  CASE d = -1000 -> 220264658 [] d = -999 -> 218072988 [] d = -800 -> 29809580
    [] d = -200 -> 73891 [] d = -199 -> 73155 [] d = -1 -> 10101
    [] d = 0 -> 10000 [] d = 1 -> 9900 [] d = 199 -> 1367 [] d = 200 -> 1353
    [] d = 800 -> 3 [] d = 999 -> 0 [] d = 1000 -> 0

\* math.exp(+0.01 * d): the decay with its sign reversed.
ExpGrowth(d) == ExpDecay(0 - d)

\* CalculationEngine.calculate_behavior_weight.
calculate_behavior_weight(credibility, clarity_score, extraction_confidence) ==
  MulFix(MulFix(PowAlpha(credibility), PowBeta(clarity_score)),
         PowGamma(extraction_confidence))

\* CalculationEngine.calculate_adjusted_behavior_weight for
\* days_since_last_seen = 0, the only value calculate_behavior_metrics
\* passes for an observation: the decay factor is exp(0) = 1.
calculate_adjusted_behavior_weight(behavior_weight, reinforcement_count) ==
  MulFix(MulFix(behavior_weight,
                Scale + reinforcement_count * reinforcement_multiplier),
         ExpDecay(0))

\* CalculationEngine.calculate_behavior_metrics: the abw of an observation;
\* an observation has no reinforcement_count, so 1 is used.
calculate_behavior_metrics(obs) ==
  calculate_adjusted_behavior_weight(
    calculate_behavior_weight(obs.credibility, obs.clarity_score,
                              obs.extraction_confidence), 1)

\* _calculate_recency_factor with a weight that grows with age.
calculate_recency_factor_growing(timestamps, current_timestamp) ==
  IF timestamps = <<>> THEN 0
  ELSE SumSeq([i \in DOMAIN timestamps |->
                 ExpGrowth(current_timestamp - timestamps[i])])
         \div Len(timestamps)

\* CalculationEngine._calculate_recency_factor.
calculate_recency_factor(timestamps, current_timestamp) ==
  IF timestamps = <<>> THEN 0
  ELSE SumSeq([i \in DOMAIN timestamps |->
                 ExpDecay(current_timestamp - timestamps[i])])
         \div Len(timestamps)

\* round(raw / (1 + raw), 4), computed as 1 - 1 / (1 + raw).
Normalized(raw_strength) ==
  Scale - (2 * Scale * Scale + (Scale + raw_strength))
            \div (2 * (Scale + raw_strength))

\* calculate_cluster_strength returning the raw strength, capped at 1.
calculate_cluster_strength_raw(cluster_size, mean_abw, timestamps, current_timestamp) ==
  Min(Scale,
      MulFix(MulFix(LnPlus1(cluster_size), mean_abw),
             calculate_recency_factor(timestamps, current_timestamp)))

\* CalculationEngine.calculate_cluster_strength.
calculate_cluster_strength(cluster_size, mean_abw, timestamps, current_timestamp) ==
  LET size_factor == LnPlus1(cluster_size)
      recency_factor == calculate_recency_factor(timestamps, current_timestamp)
      raw_strength == MulFix(MulFix(size_factor, mean_abw), recency_factor)
  IN Normalized(raw_strength)

\* sorted(zip(timestamps, clarity_scores)): pairs in ascending order.
PairLess(a, b) == a[1] < b[1] \/ (a[1] = b[1] /\ a[2] < b[2])
RemoveAt(s, i) == [k \in 1..(Len(s) - 1) |-> IF k < i THEN s[k] ELSE s[k + 1]]
RECURSIVE SortedPairs(_)
SortedPairs(s) ==
  IF s = <<>> THEN <<>>
  ELSE LET i == CHOOSE i \in DOMAIN s : \A j \in DOMAIN s : ~PairLess(s[j], s[i])
       IN <<s[i]>> \o SortedPairs(RemoveAt(s, i))

\* The clarity trend of calculate_cluster_confidence: average of the later
\* half of the clarity scores minus the average of the earlier half.
ClarityTrend(clarity_scores, timestamps) ==
  IF Len(timestamps) >= 2
  THEN LET pairs == SortedPairs([i \in DOMAIN timestamps |->
                                   <<timestamps[i], clarity_scores[i]>>])
           sorted_clarity == [i \in DOMAIN pairs |-> pairs[i][2]]
           n == Len(sorted_clarity)
           mid == n \div 2
           first_half_avg == SumSeq(SubSeq(sorted_clarity, 1, mid)) \div mid
           second_half_avg ==
             SumSeq(SubSeq(sorted_clarity, mid + 1, n)) \div (n - mid)
       IN second_half_avg - first_half_avg
  ELSE 0

\* CalculationEngine.calculate_cluster_confidence.
calculate_cluster_confidence(intra_cluster_distances, cluster_size, clarity_scores, timestamps) ==
  LET mean_distance ==
        IF intra_cluster_distances = <<>> THEN 0
        ELSE SumSeq(intra_cluster_distances) \div Len(intra_cluster_distances)
      consistency_score ==
        (Scale * Scale + (Scale + mean_distance) \div 2)
          \div (Scale + mean_distance)
      reinforcement_score == Min(Scale, Log10Plus1(cluster_size))
      clarity_trend == ClarityTrend(clarity_scores, timestamps)
      confidence == MulFix(consistency_score, reinforcement_score)
      boosted == IF clarity_trend > 0
                 THEN MulFix(confidence, Scale + clarity_trend \div 10)
                 ELSE confidence
  IN [confidence |-> Min(Scale, boosted),
      consistency_score |-> consistency_score,
      reinforcement_score |-> reinforcement_score,
      clarity_trend |-> clarity_trend]

\* The observations of a cluster.  An observation loaded from the vector
\* store without a prompt history has the prompt id "prompt_<timestamp>".
\* The first two members have the same behavior text, every later pair of
\* members too.
Observation(q, t) ==
  [credibility |-> q, clarity_score |-> q, extraction_confidence |-> q,
   timestamp |-> t, prompt_id |-> t]
MemberText(i) == (i + 1) \div 2
Observations == {Observation(q, t) : q \in Qualities, t \in Days}
\* Member lists of up to max observations, in order of timestamp and then
\* quality: the scoring functions sum or sort the lists they are given.
ObservationRank(o) == o.timestamp * (Scale + 1) + o.clarity_score
ObservationLists(max) ==
  {s \in UNION {[1..n -> Observations] : n \in 0..max} :
     \A i \in 1..(Len(s) - 1) : ObservationRank(s[i]) <= ObservationRank(s[i + 1])}
TimestampsOf(observations) ==
  [i \in DOMAIN observations |-> observations[i].timestamp]
ClarityOf(observations) ==
  [i \in DOMAIN observations |-> observations[i].clarity_score]
MeanAbw(observations) ==
  IF observations = <<>> THEN 0
  ELSE SumSeq([i \in DOMAIN observations |->
                 calculate_behavior_metrics(observations[i])])
         \div Len(observations)

\* The list without its repeated values.
RECURSIVE Distinct(_)
Distinct(s) ==
  IF s = <<>> THEN <<>>
  ELSE LET r == Distinct(SubSeq(s, 1, Len(s) - 1))
           x == s[Len(s)]
       IN IF \E i \in DOMAIN r : r[i] = x THEN r ELSE Append(r, x)

SeqMin(s) == CHOOSE x \in {s[i] : i \in DOMAIN s} : \A i \in DOMAIN s : x <= s[i]
SeqMax(s) == CHOOSE x \in {s[i] : i \in DOMAIN s} : \A i \in DOMAIN s : s[i] <= x

\* The aggregation of the loop body keeping each value once.
AggregateEvidenceDistinct(observations) ==
  LET all_timestamps == Distinct(TimestampsOf(observations))
  IN [all_prompt_ids |->
        Distinct([i \in DOMAIN observations |-> observations[i].prompt_id]),
      all_timestamps |-> all_timestamps,
      wording_variations |->
        Distinct([i \in DOMAIN observations |-> MemberText(i)]),
      first_seen |-> SeqMin(all_timestamps),
      last_seen |-> SeqMax(all_timestamps)]

\* The evidence the loop body of _build_behavior_clusters aggregates from
\* the members of a cluster, and the temporal metrics.
AggregateEvidence(observations) ==
  LET all_timestamps == TimestampsOf(observations)
  IN [all_prompt_ids |->
        [i \in DOMAIN observations |-> observations[i].prompt_id],
      all_timestamps |-> all_timestamps,
      wording_variations |-> [i \in DOMAIN observations |-> MemberText(i)],
      first_seen |-> SeqMin(all_timestamps),
      last_seen |-> SeqMax(all_timestamps)]

\* The BehaviorCluster the loop body of _build_behavior_clusters constructs
\* with a strength that is raised when the label came from the
\* text-generation service.
build_behavior_cluster_scoring_label(observations, distances, current_timestamp, canonical_label, cluster_name) ==
  LET evidence == AggregateEvidence(observations)
      all_timestamps == evidence.all_timestamps
      cluster_size == Len(observations)
      mean_abw == MeanAbw(observations)
      strength == calculate_cluster_strength(cluster_size, mean_abw,
                                             all_timestamps, current_timestamp)
      confidence_metrics ==
        calculate_cluster_confidence(distances, cluster_size,
                                     ClarityOf(observations), all_timestamps)
  IN [observation_ids |-> DOMAIN observations,
      cluster_size |-> cluster_size,
      canonical_label |-> canonical_label,
      cluster_name |-> cluster_name,
      all_prompt_ids |-> evidence.all_prompt_ids,
      all_timestamps |-> evidence.all_timestamps,
      wording_variations |-> evidence.wording_variations,
      first_seen |-> evidence.first_seen,
      last_seen |-> evidence.last_seen,
      cluster_strength |-> IF canonical_label.kind = "llm"
                           THEN Min(Scale, strength + 500) ELSE strength,
      confidence |-> confidence_metrics.confidence,
      mean_abw |-> mean_abw,
      recency_factor |-> calculate_recency_factor(all_timestamps,
                                                  current_timestamp),
      tier |-> "NOISE"]

\* The BehaviorCluster the loop body of _build_behavior_clusters constructs
\* for one cluster: tier NOISE until the tier step.
build_behavior_cluster(observations, distances, current_timestamp, canonical_label, cluster_name) ==
  LET evidence == AggregateEvidence(observations)
      all_timestamps == evidence.all_timestamps
      cluster_size == Len(observations)
      mean_abw == MeanAbw(observations)
      confidence_metrics ==
        calculate_cluster_confidence(distances, cluster_size,
                                     ClarityOf(observations), all_timestamps)
  IN [observation_ids |-> DOMAIN observations,
      cluster_size |-> cluster_size,
      canonical_label |-> canonical_label,
      cluster_name |-> cluster_name,
      all_prompt_ids |-> evidence.all_prompt_ids,
      all_timestamps |-> evidence.all_timestamps,
      wording_variations |-> evidence.wording_variations,
      first_seen |-> evidence.first_seen,
      last_seen |-> evidence.last_seen,
      cluster_strength |-> calculate_cluster_strength(cluster_size, mean_abw,
                             all_timestamps, current_timestamp),
      confidence |-> confidence_metrics.confidence,
      mean_abw |-> mean_abw,
      recency_factor |-> calculate_recency_factor(all_timestamps,
                                                  current_timestamp),
      tier |-> "NOISE"]

\* The clusters one analysis of the observations can produce: the loop body
\* with any outcome of the two calls to the text-generation service, then
\* _assign_tier_by_strength.
AnalyzedClusters(observations, distances, current_timestamp) ==
  LET texts == {MemberText(i) : i \in DOMAIN observations}
      labels == UNION {select_canonical_label(texts, Len(observations),
                                              TRUE, llm) : llm \in LLMOutcomes}
      names == {generate_cluster_name(texts, MemberText(1), llm) : llm \in LLMOutcomes}
  IN {LET built == build_behavior_cluster(
                     observations, distances, current_timestamp,
                     [kind |-> l.kind, text |-> l.text], n)
      IN [built EXCEPT !.tier = assign_tier_by_strength(built.cluster_strength)] :
        l \in labels, n \in names}

\* The tier _build_behavior_clusters hands to generate_cluster_name: the name
\* is generated in the loop body, before the tier step (step 5).
name_tier == "UNKNOWN"

NoPrevious == [kind |-> "none"]
PreviousOf(c) ==
  [kind |-> "cluster", current_timestamp |-> c.current_timestamp,
   tier |-> c.cluster.tier, label_kind |-> c.cluster.canonical_label.kind]

\* The calls SpecScore starts from: the analysis of one cluster, and direct
\* calls of the three cluster scoring functions.
ClusterCalls ==
  {[fn |-> "build_behavior_cluster", pc |-> "called", observations |-> o,
    distances |-> [i \in DOMAIN o |-> d], current_timestamp |-> t] :
     o \in ObservationLists(MaxMembers) \ {<<>>}, d \in DistanceValues,
     t \in Days}
ScoringFunctions ==
  {"calculate_cluster_strength", "calculate_recency_factor",
   "calculate_cluster_confidence"}
ScoringCalls ==
  {[fn |-> f, pc |-> "called", observations |-> o, distances |-> d,
    cluster_size |-> n, current_timestamp |-> t] :
     f \in ScoringFunctions, o \in ObservationLists(1),
     d \in {<<>>, <<5000>>}, n \in 0..2, t \in Days}

Returned(c, v) ==
  [fn |-> c.fn, pc |-> "returned", observations |-> c.observations,
   distances |-> c.distances, cluster_size |-> c.cluster_size,
   current_timestamp |-> c.current_timestamp,
   result |-> [kind |-> "value", value |-> v]]

CalculateClusterStrength ==
  /\ call.fn = "calculate_cluster_strength" /\ call.pc = "called"
  /\ call' = Returned(call,
               calculate_cluster_strength(call.cluster_size,
                 MeanAbw(call.observations), TimestampsOf(call.observations),
                 call.current_timestamp))
  /\ UNCHANGED <<run, qdrant, prompts_db, profiles_db, clusters_db, last_write>>

CalculateRecencyFactor ==
  /\ call.fn = "calculate_recency_factor" /\ call.pc = "called"
  /\ call' = Returned(call,
               calculate_recency_factor(TimestampsOf(call.observations),
                                        call.current_timestamp))
  /\ UNCHANGED <<run, qdrant, prompts_db, profiles_db, clusters_db, last_write>>

CalculateClusterConfidence ==
  /\ call.fn = "calculate_cluster_confidence" /\ call.pc = "called"
  /\ call' = Returned(call,
               calculate_cluster_confidence(call.distances, call.cluster_size,
                 ClarityOf(call.observations),
                 TimestampsOf(call.observations)).confidence)
  /\ UNCHANGED <<run, qdrant, prompts_db, profiles_db, clusters_db, last_write>>

\* The first analysis of the cluster.
AnalyzeCluster ==
  /\ call.fn = "build_behavior_cluster" /\ call.pc = "called"
  /\ \E c \in AnalyzedClusters(call.observations, call.distances,
                               call.current_timestamp) :
       call' = [fn |-> call.fn, pc |-> "built",
                observations |-> call.observations,
                distances |-> call.distances,
                current_timestamp |-> call.current_timestamp,
                analyses |-> 1, cluster |-> c, previous |-> NoPrevious,
                name_tier |-> name_tier]
  /\ UNCHANGED <<run, qdrant, prompts_db, profiles_db, clusters_db, last_write>>

\* A later analysis of the same stored observations with the same
\* clustering result, at a reference time that is not earlier.
ReanalyzeCluster ==
  /\ call.fn = "build_behavior_cluster" /\ call.pc = "built"
  /\ call.analyses < MaxAnalyses
  /\ \E t \in Days :
       /\ t >= call.current_timestamp
       /\ \E c \in AnalyzedClusters(call.observations, call.distances, t) :
            call' = [fn |-> call.fn, pc |-> "built",
                     observations |-> call.observations,
                     distances |-> call.distances,
                     current_timestamp |-> t,
                     analyses |-> call.analyses + 1,
                     cluster |-> c, previous |-> PreviousOf(call),
                     name_tier |-> name_tier]
  /\ UNCHANGED <<run, qdrant, prompts_db, profiles_db, clusters_db, last_write>>

InitScore ==
  /\ run = [r \in Runs |-> IdleRun]
  /\ qdrant = [u \in Users |-> {}]
  /\ prompts_db = {}
  /\ profiles_db = {}
  /\ clusters_db = {}
  /\ last_write = [u \in Users |-> NoWrite]
  /\ call \in ClusterCalls \cup ScoringCalls

NextScore ==
  \/ CalculateClusterStrength
  \/ CalculateRecencyFactor
  \/ CalculateClusterConfidence
  \/ AnalyzeCluster
  \/ ReanalyzeCluster

SpecScore == InitScore /\ [][NextScore]_vars

\* =============================================================== SpecCalls
\* Functions of the engine and of the services called on their own, each
\* with every input of a bounded set.

MaxIds == 4
Labels == -1..1

\* get_cluster_statistics: the sum of the sizes of the clusters.
RECURSIVE SumClusterSizes(_, _)
SumClusterSizes(clusters, keys) ==
  IF keys = {} THEN 0
  ELSE LET k == CHOOSE k \in keys : TRUE
       IN Cardinality(clusters[k]) + SumClusterSizes(clusters, keys \ {k})

\* ClusteringEngine.get_cluster_statistics.
get_cluster_statistics(clustering_result) ==
  LET clusters == clustering_result.clusters
      noise_behaviors == clustering_result.noise_behaviors
  IN IF DOMAIN clusters = {}
     THEN [num_clusters |-> 0,
           total_behaviors |-> Cardinality(noise_behaviors),
           noise_count |-> Cardinality(noise_behaviors)]
     ELSE [num_clusters |-> Cardinality(DOMAIN clusters),
           total_behaviors |-> SumClusterSizes(clusters, DOMAIN clusters)
                                 + Cardinality(noise_behaviors),
           noise_count |-> Cardinality(noise_behaviors)]

\* Calls of cluster_behaviors: the ids 1..n and, for each id, the label
\* fit_predict gives it when it is asked.
ClusterBehaviorsCalls ==
  UNION {{[fn |-> "cluster_behaviors", pc |-> "called",
           behavior_ids |-> 1..n, labels |-> lab] : lab \in [1..n -> Labels]} :
         n \in 0..MaxIds}

ClusterBehaviors ==
  /\ call.fn = "cluster_behaviors" /\ call.pc = "called"
  /\ call' = [fn |-> call.fn, pc |-> "returned",
              behavior_ids |-> call.behavior_ids, labels |-> call.labels,
              result |-> cluster_behaviors(call.behavior_ids, call.labels)]
  /\ UNCHANGED <<run, qdrant, prompts_db, profiles_db, clusters_db, last_write>>

\* CalculationEngine.calculate_days_since_last_seen, in whole days.
calculate_days_since_last_seen(last_seen_timestamp, current_timestamp) ==
  IF current_timestamp - last_seen_timestamp > 0
  THEN current_timestamp - last_seen_timestamp ELSE 0

\* CalculationEngine.calculate_behavior_metrics: the dictionary it returns.
\* A legacy BehaviorModel has last_seen, created_at and reinforcement_count;
\* a BehaviorObservation has none of them.  The decay rate is the default
\* 0.01 per day.
behavior_metrics(behavior, current_timestamp) ==
  LET bw == calculate_behavior_weight(behavior.credibility,
                                      behavior.clarity_score,
                                      behavior.extraction_confidence)
      legacy == behavior.kind = "BehaviorModel"
      span == IF legacy THEN behavior.last_seen - behavior.created_at ELSE 0
      days_active == IF span > 0 THEN span ELSE 0
      reinforcement_count == IF legacy THEN behavior.reinforcement_count ELSE 1
      abw == MulFix(MulFix(bw, Scale + reinforcement_count
                                         * reinforcement_multiplier),
                    ExpDecay(days_active))
  IN [behavior_id |-> behavior.id, bw |-> bw, abw |-> abw,
      days_active |-> days_active]

\* Calls of calculate_behavior_metrics.
BehaviorMetricsCalls ==
  {[fn |-> "calculate_behavior_metrics", pc |-> "called",
    behavior |-> [kind |-> "BehaviorModel", id |-> 1, credibility |-> q,
                  clarity_score |-> q, extraction_confidence |-> q,
                  reinforcement_count |-> n, created_at |-> c,
                  last_seen |-> l],
    current_timestamp |-> t] :
     q \in Qualities, n \in {1, 17}, c \in Days, l \in Days, t \in Days}
  \cup
  {[fn |-> "calculate_behavior_metrics", pc |-> "called",
    behavior |-> [kind |-> "BehaviorObservation", id |-> 1, credibility |-> q,
                  clarity_score |-> q, extraction_confidence |-> q,
                  timestamp |-> l],
    current_timestamp |-> t] :
     q \in Qualities, l \in Days, t \in Days}

CalculateBehaviorMetrics ==
  /\ call.fn = "calculate_behavior_metrics" /\ call.pc = "called"
  /\ call' = [fn |-> call.fn, pc |-> "returned", behavior |-> call.behavior,
              current_timestamp |-> call.current_timestamp,
              result |-> behavior_metrics(call.behavior,
                                          call.current_timestamp)]
  /\ UNCHANGED <<run, qdrant, prompts_db, profiles_db, clusters_db, last_write>>

\* ----- the context for the text-generation service
\* A stored Profile holds at most MaxClusters clusters; a stored cluster has
\* the tier its strength gave it in the tier step.
MaxClusters == 2
ContextStrengths == {3500, 5000, 9000}
ContextConfidences == {3000, 8000}
StoredClusters ==
  {[cluster_strength |-> st, confidence |-> cf,
    tier |-> assign_tier_by_strength(st)] :
     st \in ContextStrengths, cf \in ContextConfidences}
StoredClusterLists ==
  UNION {[1..n -> StoredClusters] : n \in 0..MaxClusters}

\* list.sort(key=cluster_strength, reverse=True): stable, the strongest first.
RECURSIVE SortByStrength(_)
SortByStrength(s) ==
  IF s = << >> THEN << >>
  ELSE LET i == CHOOSE i \in DOMAIN s :
                  /\ \A j \in DOMAIN s :
                       s[j].cluster_strength <= s[i].cluster_strength
                  /\ \A j \in 1..(i - 1) :
                       s[j].cluster_strength < s[i].cluster_strength
       IN <<s[i]>> \o SortByStrength(RemoveAt(s, i))

\* s[:n] of Python: the first n elements, or all but the last -n for n < 0.
SliceTo(s, n) ==
  LET m == IF n >= 0 THEN Min(n, Len(s))
           ELSE IF Len(s) + n > 0 THEN Len(s) + n ELSE 0
  IN SubSeq(s, 1, m)

\* LLMContextService.generate_llm_context: the clusters the context text
\* lists, one numbered entry each; without any the text is "No significant
\* behavioral patterns detected." and lists none.
top_clusters(clusters, min_strength, min_confidence, max_behaviors) ==
  LET relevant(c) == /\ c.cluster_strength >= min_strength
                     /\ c.confidence >= min_confidence
                     /\ c.tier # "NOISE"
  IN SliceTo(SortByStrength(SelectSeq(clusters, relevant)), max_behaviors)

\* generate_llm_context(user_id, ...) for a user whose stored Profile holds
\* the clusters; min_strength is a percentage.
generate_llm_context(clusters, min_strength, min_confidence, max_behaviors) ==
  LET min_strength_ratio == min_strength * (Scale \div 100)
      counted(c) == /\ c.cluster_strength >= min_strength_ratio
                    /\ c.confidence >= min_confidence
  IN [context |-> top_clusters(clusters, min_strength_ratio,
                               min_confidence, max_behaviors),
      metadata |->
        [total_clusters |-> Len(clusters),
         included_behaviors |->
           Min(max_behaviors, Len(SelectSeq(clusters, counted)))]]

\* Calls of generate_llm_context: the default thresholds (30 percent, 0.40)
\* and a strength threshold at the SECONDARY boundary.
LlmContextCalls ==
  {[fn |-> "generate_llm_context", pc |-> "called", clusters |-> cl,
    min_strength |-> ms, min_confidence |-> 4000, max_behaviors |-> mb] :
     cl \in StoredClusterLists, ms \in {30, 40}, mb \in {0, 1, 5}}

GenerateLlmContext ==
  /\ call.fn = "generate_llm_context" /\ call.pc = "called"
  /\ call' = [fn |-> call.fn, pc |-> "returned", clusters |-> call.clusters,
              min_strength |-> call.min_strength,
              min_confidence |-> call.min_confidence,
              max_behaviors |-> call.max_behaviors,
              result |-> generate_llm_context(call.clusters,
                                              call.min_strength,
                                              call.min_confidence,
                                              call.max_behaviors)]
  /\ UNCHANGED <<run, qdrant, prompts_db, profiles_db, clusters_db, last_write>>

InitCalls ==
  /\ run = [r \in Runs |-> IdleRun]
  /\ qdrant = [u \in Users |-> {}]
  /\ prompts_db = {}
  /\ profiles_db = {}
  /\ clusters_db = {}
  /\ last_write = [u \in Users |-> NoWrite]
  /\ call \in ClusterBehaviorsCalls \cup BehaviorMetricsCalls
                \cup LlmContextCalls

NextCalls ==
  \/ ClusterBehaviors
  \/ CalculateBehaviorMetrics
  \/ GenerateLlmContext

SpecCalls == InitCalls /\ [][NextCalls]_vars

\* ================================================================ claims
\* C1 (as claimed): a run that was given at least one observation and whose
\* collaborator calls all succeeded ends by returning a Profile.
C1_RunReturnsProfile ==
  \A r \in Runs :
    (run[r].pc = "done" /\ run[r].failed = {} /\ run[r].observations # {})
      => run[r].result.kind = "profile"

\* C2 (as claimed): a run given fewer observations than min_cluster_size,
\* with working collaborators, returns a Profile with no cluster and
\* statistics.clusters_formed = 0.
C2_DegenerateRunReturnsEmptyProfile ==
  \A r \in Runs :
    (/\ run[r].pc = "done"
     /\ run[r].failed = {}
     /\ run[r].clustering_result # NoClustering
     /\ Cardinality(run[r].observations) < min_cluster_size)
      => /\ run[r].result.kind = "profile"
         /\ run[r].result.profile.behavior_clusters = << >>
         /\ run[r].result.profile.statistics.clusters_formed = 0

C5_StoreFailureIsFatal ==
  \A r \in Runs :
    (/\ run[r].pc = "done"
     /\ run[r].failed \cap {"qdrant_read", "mongo_read",
                             "mongo_write_prompts", "mongo_write_profile"} # {})
      => run[r].result.kind = "StoreError"

\* C6: analyze_behaviors_from_storage for a user without stored observations
\* ends with the not-found error (ValueError) at the fetch, before any
\* embedding or text-generation call and before any write.
C6_NotFoundBeforeAnyStep ==
  \A r \in Runs :
    (run[r].entry = "storage" /\ qdrant[run[r].user_id] = {})
      => /\ run[r].pc \in {"fetch_behaviors", "done"}
         /\ run[r].pc = "done" => run[r].result.kind = "ValueError"
         /\ run[r].embed_calls = 0
         /\ run[r].llm_calls = 0
         /\ run[r].wrote = {}
         /\ run[r].clustering_result = NoClustering

\* C6 witness: such a run has ended, its read of the vector store having
\* succeeded.
C6_Witness ==
  \E r \in Runs :
    /\ run[r].entry = "storage"
    /\ qdrant[run[r].user_id] = {}
    /\ run[r].pc = "done"
    /\ run[r].failed = {}

\* C4: every cluster of a returned Profile has tier PRIMARY exactly when its
\* strength is at least 0.8, SECONDARY exactly when it is at least 0.4 and
\* below 0.8, NOISE exactly when it is below 0.4.
C4_TierFollowsStrength ==
  \A r \in Runs :
    run[r].result.kind = "profile" =>
      \A i \in DOMAIN run[r].result.profile.behavior_clusters :
        LET c == run[r].result.profile.behavior_clusters[i]
        IN /\ c.tier = "PRIMARY" <=> c.cluster_strength >= 8000
           /\ c.tier = "SECONDARY" <=>
                (c.cluster_strength >= 4000 /\ c.cluster_strength < 8000)
           /\ c.tier = "NOISE" <=> c.cluster_strength < 4000

\* C4 witness: a returned Profile holds a cluster of strength exactly 0.8
\* whose tier is no longer the NOISE it was constructed with.
C4_Witness ==
  \E r \in Runs :
    /\ run[r].result.kind = "profile"
    /\ \E i \in DOMAIN run[r].result.profile.behavior_clusters :
         LET c == run[r].result.profile.behavior_clusters[i]
         IN c.cluster_strength = 8000 /\ c.tier = "PRIMARY"

ProfilesOf(u) == {d \in profiles_db : d.user_id = u}

\* C7: the document store holds at most one Profile per user, and it is in
\* full the Profile of the latest successful write for that user.
C7_OneProfilePerUserReplaced ==
  \A u \in Users :
    /\ Cardinality(ProfilesOf(u)) <= 1
    /\ last_write[u] = NoWrite => ProfilesOf(u) = {}
    /\ last_write[u] # NoWrite => ProfilesOf(u) = {last_write[u].profile}

\* C7 witness: two runs for one user have both written their Profile, the
\* Profiles differ, and the earlier one held a cluster or an archetype that a
\* merge would have carried over.
C7_Witness ==
  \E r1, r2 \in Runs :
    /\ r1 # r2
    /\ run[r1].user_id = run[r2].user_id
    /\ "profile" \in run[r1].wrote /\ "profile" \in run[r2].wrote
    /\ last_write[run[r1].user_id].by = r2
    /\ run[r1].result.profile # run[r2].result.profile
    /\ run[r1].result.profile.behavior_clusters # << >>
    /\ run[r2].result.profile.behavior_clusters = << >>

\* C8: when two runs for the same user have both finished and both wrote
\* their Profile, the stored Profile is in its entirety the Profile returned
\* by the run that wrote last.
C8_LastWriteWinsWhole ==
  \A r1, r2 \in Runs :
    (/\ r1 # r2
     /\ run[r1].user_id = run[r2].user_id
     /\ run[r1].pc = "done" /\ run[r2].pc = "done"
     /\ "profile" \in run[r1].wrote /\ "profile" \in run[r2].wrote)
      => LET u == run[r1].user_id
             last == last_write[u].by
         IN /\ last \in Runs
            /\ run[last].user_id = u
            /\ "profile" \in run[last].wrote
            /\ ProfilesOf(u) = {run[last].result.profile}

\* C8 witness: two runs for one user have finished, both wrote, their
\* Profiles differ in archetype, and the lower-numbered run wrote last.
C8_Witness ==
  \E r1, r2 \in Runs :
    /\ r1 < r2
    /\ run[r1].user_id = run[r2].user_id
    /\ run[r1].pc = "done" /\ run[r2].pc = "done"
    /\ "profile" \in run[r1].wrote /\ "profile" \in run[r2].wrote
    /\ run[r1].result.profile # run[r2].result.profile
    /\ run[r1].result.profile.archetype # run[r2].result.profile.archetype
    /\ last_write[run[r1].user_id].by = r1

C10_StorageRunWritesOnlyOwnProfile ==
  [][\A r \in Runs :
       (run[r].entry = "storage" /\ run'[r] # run[r])
         => /\ qdrant' = qdrant
            /\ prompts_db' = prompts_db
            /\ clusters_db' = clusters_db
            /\ \A u \in Users \ {run[r].user_id} :
                 {d \in profiles_db' : d.user_id = u} = ProfilesOf(u)]_vars

\* C10 witness: a run from storage has written its user's Profile while the
\* store held the Profile of another user.
C10_Witness ==
  \E r \in Runs :
    /\ run[r].entry = "storage"
    /\ run[r].pc = "done"
    /\ "profile" \in run[r].wrote
    /\ \E u \in Users \ {run[r].user_id} :
         /\ ProfilesOf(u) # {}
         /\ last_write[u].by # 0

\* C11: a run whose archetype generation failed is not ended by that failure:
\* it goes on to return a Profile, and the archetype of that Profile is
\* "Unknown".
C11_ArchetypeFailureIsNotFatal ==
  \A r \in Runs :
    "llm" \in run[r].failed =>
      /\ run[r].pc \in {"step8", "done"}
      /\ run[r].archetype = "Unknown"
      /\ run[r].pc = "done" =>
           /\ run[r].result.kind = "profile"
           /\ run[r].result.profile.archetype = "Unknown"
           /\ run[r].result.profile.behavior_clusters = run[r].behavior_clusters

\* C11 witness: a run has returned a Profile with a cluster after its
\* archetype generation failed.
C11_Witness ==
  \E r \in Runs :
    /\ "llm" \in run[r].failed
    /\ run[r].pc = "done"
    /\ run[r].result.kind = "profile"
    /\ run[r].result.profile.behavior_clusters # << >>

\* C12 (as claimed): for a cluster of two or more members, when the
\* text-generation service is unavailable, fails, or answers with an empty
\* or over-long text, the display label is a longest text among all the
\* member texts.
C12_FallbackLabelIsLongestMember ==
  (/\ call.fn = "select_canonical_label"
   /\ call.pc = "returned"
   /\ call.size >= 2
   /\ call.llm # "text")
    => /\ call.result.kind = "member"
       /\ call.result.text \in Longest(call.texts)

\* C13 (as claimed): when the call for the display name fails, or answers
\* with an empty or over-long text, the name is the first wording,
\* title-cased.
C13_FallbackNameIsFirstWordingTitled ==
  (/\ call.fn = "generate_cluster_name"
   /\ call.pc = "returned"
   /\ call.texts # {}
   /\ call.llm # "text")
    => call.result = Title(call.first)

\* C14: for a cluster of exactly one member the label selector returns that
\* member's text as it is and makes no call to the text-generation service,
\* whatever the state of the service.
C14_SingleMemberLabelVerbatim ==
  (/\ call.fn = "select_canonical_label"
   /\ call.pc = "returned"
   /\ call.size = 1)
    => /\ call.result.kind = "member"
       /\ call.texts = {call.result.text}
       /\ call.result.llm_calls = 0

\* C14 witness: a one-member cluster got its label while the service would
\* have answered with a usable text.
C14_Witness ==
  /\ call.fn = "select_canonical_label"
  /\ call.pc = "returned"
  /\ call.size = 1
  /\ call.use_llm
  /\ call.llm = "text"
  /\ call.result.kind = "member"

\* ----- claims about the scoring functions (SpecScore)

Built == call.fn = "build_behavior_cluster" /\ call.pc = "built"
TierRank(tier) ==
  CASE tier = "NOISE" -> 0 [] tier = "SECONDARY" -> 1 [] tier = "PRIMARY" -> 2

\* C15: two analyses of the same observations with the same reference time
\* and the same clustering result, which differ only in what the
\* text-generation service returns or in whether it fails, give the cluster
\* the same membership, strength, confidence and tier.
C15_TextServiceNeverInfluencesScores ==
  [][(Built /\ call'.fn = "build_behavior_cluster" /\ call'.pc = "built"
      /\ call'.current_timestamp = call.current_timestamp)
     => /\ call'.cluster.observation_ids = call.cluster.observation_ids
        /\ call'.cluster.cluster_strength = call.cluster.cluster_strength
        /\ call'.cluster.confidence = call.cluster.confidence
        /\ call'.cluster.tier = call.cluster.tier]_vars

\* Two analyses at the same reference time, one labelled by the service and
\* one labelled by the fallback.
C15_Witness ==
  /\ Built
  /\ call.previous.kind = "cluster"
  /\ call.previous.current_timestamp = call.current_timestamp
  /\ call.previous.label_kind = "llm"
  /\ call.cluster.canonical_label.kind = "member"
  /\ call.cluster.cluster_strength > 0

\* C16: a scoring function (cluster strength, recency factor, cluster
\* confidence) called with an empty timestamp or distance list ends in a
\* precondition error; it returns no score.
C16_EmptyInputIsRejected ==
  (/\ call.fn \in ScoringFunctions
   /\ call.pc = "returned"
   /\ \/ call.observations = <<>>
      \/ call.fn = "calculate_cluster_confidence" /\ call.distances = <<>>)
  => call.result.kind = "error"

\* C17: for a cluster of at least one member the strength returned is at
\* least 0 and less than 1, and the confidence returned is at least 0 and
\* at most 1.
C17_ScoresWithinBounds ==
  Built =>
    /\ 0 <= call.cluster.cluster_strength
    /\ call.cluster.cluster_strength < Scale
    /\ 0 <= call.cluster.confidence
    /\ call.cluster.confidence <= Scale

\* Scenario A: exactly 3 observations of credibility, clarity and extraction
\* confidence 0.9, every timestamp within 1 day before the reference time.
ScenarioA ==
  /\ Built
  /\ Len(call.observations) = 3
  /\ \A i \in DOMAIN call.observations :
       /\ call.observations[i] = Observation(9000, call.observations[i].timestamp)
       /\ call.current_timestamp - call.observations[i].timestamp \in {0, 1}

C19_ElapsedTimeNeverRaisesTier ==
  [][(/\ Built
      /\ call'.fn = "build_behavior_cluster" /\ call'.pc = "built"
      /\ call'.current_timestamp >= call.current_timestamp
      /\ \A i \in DOMAIN call.observations :
           call.observations[i].timestamp <= call.current_timestamp)
     => /\ call'.cluster.recency_factor <= call.cluster.recency_factor
        /\ call'.cluster.cluster_strength <= call.cluster.cluster_strength
        /\ TierRank(call'.cluster.tier) <= TierRank(call.cluster.tier)]_vars

\* A cluster that was SECONDARY at a reference time not earlier than its
\* last observation and is NOISE at a later one.
C19_Witness ==
  /\ Built
  /\ call.previous.kind = "cluster"
  /\ call.previous.current_timestamp < call.current_timestamp
  /\ \A i \in DOMAIN call.observations :
       call.observations[i].timestamp <= call.previous.current_timestamp
  /\ call.previous.tier = "SECONDARY"
  /\ call.cluster.tier = "NOISE"

\* ----- claims about the clustering result (Spec)

\* C20: every result the clustering engine returns has, for each of its
\* clusters, a centroid and the list of its members' distances.
C20_ResultHasCentroidsAndDistances ==
  \A r \in Runs :
    run[r].clustering_result # NoClustering =>
      LET cr == run[r].clustering_result
      IN /\ {"cluster_centroids", "intra_cluster_distances"} \subseteq DOMAIN cr
         /\ \A c \in DOMAIN cr.clusters :
              /\ c \in DOMAIN cr.cluster_centroids
              /\ c \in DOMAIN cr.intra_cluster_distances

\* ----- claims about the clustering engine (SpecCalls)

ClusteringReturned == call.fn = "cluster_behaviors" /\ call.pc = "returned"

\* C21: the result of cluster_behaviors is a partition of the input ids:
\* every id is in exactly one cluster or in the noise set, no id is in two
\* of them, none is dropped and none is added; num_clusters is the number of
\* clusters, and the cluster sizes plus the noise count add up to the
\* number of input ids.
C21_ClusteringIsPartition ==
  ClusteringReturned =>
    LET ids == call.behavior_ids
        clusters == call.result.clusters
        noise == call.result.noise_behaviors
        holders(i) == {c \in DOMAIN clusters : i \in clusters[c]}
        stats == get_cluster_statistics(call.result)
    IN /\ \A i \in ids :
            Cardinality(holders(i)) + (IF i \in noise THEN 1 ELSE 0) = 1
       /\ noise \subseteq ids
       /\ \A c \in DOMAIN clusters : clusters[c] \subseteq ids /\ clusters[c] # {}
       /\ call.result.num_clusters = Cardinality(DOMAIN clusters)
       /\ stats.num_clusters = call.result.num_clusters
       /\ stats.total_behaviors = Cardinality(ids)
       /\ stats.noise_count = Cardinality(noise)

\* A result with two clusters and a noise id.
C21_Witness ==
  /\ ClusteringReturned
  /\ call.result.num_clusters = 2
  /\ call.result.noise_behaviors # {}

\* C22: cluster_behaviors called with fewer points than min_cluster_size
\* attempts no clustering and returns no cluster, num_clusters 0, label -1
\* for every point and every input id in the noise set.
C22_TooFewPointsAreAllNoise ==
  (ClusteringReturned /\ Cardinality(call.behavior_ids) < min_cluster_size) =>
    /\ DOMAIN call.result.clusters = {}
    /\ call.result.num_clusters = 0
    /\ \A i \in call.behavior_ids : call.result.labels[i] = -1
    /\ DOMAIN call.result.labels = call.behavior_ids
    /\ call.result.noise_behaviors = call.behavior_ids
    /\ "clusterer" \notin DOMAIN call.result

\* One point that fit_predict would have labelled 0.
C22_Witness ==
  /\ ClusteringReturned
  /\ Cardinality(call.behavior_ids) = 1
  /\ \A i \in call.behavior_ids : call.labels[i] = 0
  /\ call.result.noise_behaviors = call.behavior_ids

\* ----- claims about the Profile and the stores (SpecTail)

\* C23: in every returned Profile the statistics are: the number of input
\* observations (noise members included), the length of the Profile's
\* cluster list, the number of input prompts, and the time span
\* (max prompt timestamp - min prompt timestamp) / 86400, which is 0 without
\* prompts and never negative.
C23_StatisticsCountTheRun ==
  \A r \in Runs :
    run[r].result.kind = "profile" =>
      LET profile == run[r].result.profile
          st == profile.statistics
          ts == {prompt_timestamp(p) : p \in run[r].prompts}
      IN /\ st.total_behaviors_analyzed = Cardinality(run[r].observations)
         /\ st.clusters_formed = Len(profile.behavior_clusters)
         /\ st.total_prompts_analyzed = Cardinality(run[r].prompts)
         /\ st.analysis_time_span_days >= 0
         /\ run[r].prompts = {} => st.analysis_time_span_days = 0
         /\ \A lo \in ts, hi \in ts :
              ((\A t \in ts : lo <= t /\ t <= hi))
                => st.analysis_time_span_days * SecondsPerDay = (hi - lo) * Scale

\* A Profile of a run whose observations were all noise, with prompts half
\* a day apart.
C23_Witness ==
  \E r \in Runs :
    /\ run[r].result.kind = "profile"
    /\ run[r].observations # {}
    /\ run[r].result.profile.behavior_clusters = << >>
    /\ Cardinality(run[r].prompts) >= 2
    /\ run[r].result.profile.statistics.analysis_time_span_days = Scale \div 2

\* ----- claims about the assembly of a cluster (SpecScore)

\* C24: in an assembled cluster the prompt-reference list, the timestamp
\* list and the wording list hold one entry per member observation, in the
\* members' order and with repeated values kept; cluster_size is the number
\* of member observations and of observation ids; first_seen and last_seen
\* are the least and the greatest member timestamp, first_seen <= last_seen.
C24_EvidenceHasOneEntryPerMember ==
  Built =>
    LET members == call.observations
        c == call.cluster
    IN /\ DOMAIN c.all_prompt_ids = DOMAIN members
       /\ DOMAIN c.all_timestamps = DOMAIN members
       /\ DOMAIN c.wording_variations = DOMAIN members
       /\ \A i \in DOMAIN members :
            /\ c.all_prompt_ids[i] = members[i].prompt_id
            /\ c.all_timestamps[i] = members[i].timestamp
            /\ c.wording_variations[i] = MemberText(i)
       /\ c.cluster_size = Len(members)
       /\ c.cluster_size = Cardinality(c.observation_ids)
       /\ \E i \in DOMAIN members : members[i].timestamp = c.first_seen
       /\ \E i \in DOMAIN members : members[i].timestamp = c.last_seen
       /\ \A i \in DOMAIN members :
            c.first_seen <= members[i].timestamp /\ members[i].timestamp <= c.last_seen
       /\ c.first_seen <= c.last_seen

\* A cluster of three members, two of them with the same timestamp, prompt
\* and wording.
C24_Witness ==
  /\ Built
  /\ Len(call.observations) = 3
  /\ call.cluster.all_timestamps[1] = call.cluster.all_timestamps[2]
  /\ call.cluster.all_prompt_ids[1] = call.cluster.all_prompt_ids[2]
  /\ call.cluster.wording_variations[1] = call.cluster.wording_variations[2]
  /\ call.cluster.first_seen < call.cluster.last_seen

\* ----- claims about the embedding step (Spec)

\* C25: within a run the embedding service is asked only for observations
\* that lack an embedding; an observation that entered the run with an
\* embedding is never sent to it.
C25_EmbeddedObservationsAreNotAsked ==
  \A r \in Runs : run[r].embedding_asked \cap run[r].with_embedding = {}

\* ----- claims about the observation metrics (SpecCalls)

\* C26: calculate_behavior_metrics, given a behavior record and a current
\* timestamp, returns a record with the keys bw, abw and
\* days_since_last_seen, the last being the days from the record's
\* last-seen time to the current timestamp.
C26_MetricsHaveDaysSinceLastSeen ==
  (call.fn = "calculate_behavior_metrics" /\ call.pc = "returned")
  => /\ {"bw", "abw", "days_since_last_seen"} \subseteq DOMAIN call.result
     /\ call.result.days_since_last_seen =
          calculate_days_since_last_seen(
            IF call.behavior.kind = "BehaviorModel"
            THEN call.behavior.last_seen ELSE call.behavior.timestamp,
            call.current_timestamp)

\* ----- claims about the order of tiering and naming (SpecScore)

C28_NoWriteWithoutStoreInDbs ==
  [][\A r \in Runs :
       (~run[r].store_in_dbs /\ run'[r] # run[r])
         => /\ qdrant' = qdrant
            /\ prompts_db' = prompts_db
            /\ clusters_db' = clusters_db
            /\ profiles_db' = profiles_db]_vars

\* C28 witness: a run without store_in_dbs and without
\* skip_observation_storage, with prompts, observations and a cluster, has
\* returned its Profile, and the user has no stored Profile and none of the
\* run's cluster documents.
C28_Witness ==
  \E r \in Runs :
    /\ run[r].pc = "done"
    /\ run[r].result.kind = "profile"
    /\ ~run[r].store_in_dbs
    /\ ~run[r].skip_observation_storage
    /\ run[r].prompts # {}
    /\ run[r].behavior_clusters # << >>
    /\ run[r].wrote = {}
    /\ ProfilesOf(run[r].user_id) = {}

C30_IncludedBehaviorsCountsListed ==
  (call.fn = "generate_llm_context" /\ call.pc = "returned")
    => call.result.metadata.included_behaviors = Len(call.result.context)

====
